---------------------------- MODULE Spec2Model ----------------------------
(***************************************************************************)
(* Model of the searcher client's bundle protocol engine of jito-go:       *)
(* assemblePackets / AssembleBundle / BroadcastBundle /                    *)
(* BroadcastBundleWithConfirmation / handleBundleResult and the            *)
(* BundleRejectionError constructors (searcher client, src/unnamed/        *)
(* part_000) and ConvertTransactionToProtobufPacket (src/pkg/convert.go).  *)
(*                                                                         *)
(* Time is counted in whole seconds and advances in the two time.Sleep     *)
(* calls; an RPC or a Recv() returns within the second it was issued.      *)
(* Strings produced by fmt.Sprintf / fmt.Errorf are modelled as the        *)
(* sequence of their pieces (the literal parts of the format and the       *)
(* formatted arguments).                                                   *)
(***************************************************************************)
EXTENDS Integers, Sequences, FiniteSets, Bags, TLC

VARIABLES
    pc,             \* position of the one call this behaviour makes
    op,             \* which exported method was called ("none" before the call)
    transactions,   \* the caller's []types.Transaction
    bundleSignatures, \* BroadcastBundleWithConfirmation's local, l.254-257
    sent,           \* the bundles (packet lists) handed to SearcherService.SendBundle
    resp,           \* BroadcastBundleWithConfirmation's local resp, l.258
    i,              \* the retry loop's counter, l.264
    recvCount,      \* number of SubscribeBundleStream.Recv() calls
    now,            \* the clock, seconds since the call began
    start,          \* the polling phase's start, l.283
    bundleResult,   \* the last bundle result received, l.273-274
    gotResult,      \* whether a Recv() has succeeded
    statuses,       \* statuses.Value of the last poll, l.287
    rpcErr,         \* whether the last GetSignatureStatuses failed
    pollCount,      \* number of GetSignatureStatuses RPCs issued
    lastPollEnd,    \* the time the last poll returned
    latePolls,      \* polls issued after the 15 s deadline had passed
    ret,            \* what the call returned: [resp, bundle, err]
    grpcCtxDone,    \* c.Auth.GrpcCtx is cancelled
    callerCtxDone,  \* the ctx argument is cancelled
    cancelledEarly, \* ctx was cancelled while the call waited for a bundle result
    \* --- SimulateBundle / GetRandomTipAccount / GenerateTipRandomAccountInstruction
    upc,            \* position of the one helper call: "idle", "done", "panicked"
    uop,            \* which helper was called ("none" before the call)
    uin,            \* the call's inputs (arguments and what the remote end answers)
    uout,           \* what the call returned: [value, err]
    ucalls,         \* number of RPC calls the helper issued
    \* --- Subscribe{Accounts,Programs}MempoolTransactions
    sret,           \* what the caller's Subscribe call returned ("none" before it)
    sgen,           \* number of streams opened: the stream generations 1..sgen
    sfilters,       \* the filter each stream was opened with, in order
    sloop,          \* per generation, the position of its receive-loop goroutine
    serr,           \* per generation, the err variable of that invocation (l.113)
    sreceipt,       \* per generation, the loop's receipt.Transactions (l.132-133)
    stasks,         \* the decode goroutines that have not returned, as a bag
    spackets,       \* what the streams have delivered (counted as MaxPackets counts)
    scancelled,     \* payload.Ctx is cancelled
    sdrain,         \* which channels have a consumer: [client, sub]
    sreports,       \* restart-failure errors delivered on payload.ErrCh
    sevents,        \* what the last step did (names of events)
    \* --- concurrent BroadcastBundleWithConfirmation calls on one client
    cpc,            \* per caller, the position of its call
    ci,             \* per caller, the loop index i of its call
    cuuid,          \* per caller, the uuid SendBundle answered (<<>> before)
    cgot,           \* per caller, the message its Recv() returned last
    cret,           \* per caller, what its call returned
    cstream,        \* c.SubscribeBundleStream: results sent and not yet received
    cemitted        \* the bundles the block engine has sent a result for

vars == <<pc, op, transactions, bundleSignatures, sent, resp, i,
          recvCount, now, start, bundleResult, gotResult, statuses, rpcErr,
          pollCount, lastPollEnd, latePolls, ret, grpcCtxDone, callerCtxDone,
          cancelledEarly>>

utilVars == <<upc, uop, uin, uout, ucalls>>

subVars == <<sret, sgen, sfilters, sloop, serr, sreceipt, stasks, spackets,
             scancelled, sdrain, sreports, sevents>>

\* the variables the bundle protocol engine leaves alone
concVars == <<cpc, ci, cuuid, cgot, cret, cstream, cemitted>>

nonEngineVars == <<utilVars, subVars, concVars>>

\* the variables the helper calls leave alone
nonUtilVars == <<vars, subVars, concVars>>

\* the variables a subscription leaves alone
nonSubVars == <<vars, utilVars, concVars>>

\* the variables concurrent confirmation calls leave alone
nonConcVars == <<vars, utilVars, subVars>>

allVars == <<vars, utilVars, subVars, concVars>>

-----------------------------------------------------------------------------
(* Bounds of the model *)

\* longest transaction list a caller passes
MaxTxs == 2

\* longest transaction list of a call whose termination is checked
MaxFairTxs == 1

\* concurrent BroadcastBundleWithConfirmation calls on one client
MaxCallers == 2

\* stream generations of one subscription (the first stream and its restarts)
MaxGens == 2

\* what the stream generations deliver in all: each packet counts one, and
\* so does each failure and each notification without packets
MaxPackets == 2


(* Constants of the program *)

\* retries := 5
Retries == 5
\* time.Sleep(5 * time.Second)
RecvDelay == 5
\* time.Since(start) > 15*time.Second
PollDeadline == 15
\* time.Sleep(1 * time.Second)
PollPause == 1

-----------------------------------------------------------------------------
(* Errors: [kind, message]; message is the sequence of the pieces of the   *)
(* error string.                                                           *)

NoError == [kind |-> "nil", message |-> <<>>]

MkError(kind, message) == [kind |-> kind, message |-> message]

Contains(message, piece) == \E k \in 1..Len(message) : message[k] = piece

-----------------------------------------------------------------------------
(* Transactions (blocto types.Transaction): the signatures, the number of  *)
(* signatures the message header requires, the serialized message.         *)

Tx(sigs, required, msg) == [sigs |-> sigs, required |-> required, msg |-> msg]

\* two well-formed transactions, one lacking a required signature, one unsigned
TxPool ==
    { Tx(<<11>>, 1, <<1>>),
      Tx(<<12>>, 1, <<2, 3>>),
      Tx(<<13>>, 2, <<4>>),
      Tx(<<>>, 1, <<1>>) }

RECURSIVE SeqsUpTo(_, _)
SeqsUpTo(S, n) ==
    IF n = 0 THEN {<<>>}
    ELSE LET shorter == SeqsUpTo(S, n - 1)
         IN  shorter \cup {Append(s, x) : s \in {t \in shorter : Len(t) = n - 1}, x \in S}

TxLists == SeqsUpTo(TxPool, MaxTxs)

\* transaction.Serialize(): fails unless the transaction carries exactly the
\* signatures its header requires (and at least one); the wire form is the
\* signature count, the signatures, the message.
Serialize(transaction) ==
    IF Len(transaction.sigs) = 0 \/ Len(transaction.sigs) # transaction.required
    THEN [data |-> <<>>, err |-> MkError("serialize", <<"Signature verification failed">>)]
    ELSE [data |-> <<Len(transaction.sigs)>> \o transaction.sigs \o transaction.msg,
          err  |-> NoError]

EmptyPacket == [data |-> <<>>, size |-> 0]

ConvertTransactionToProtobufPacket_BadSize(transaction) ==
    LET s == Serialize(transaction)
    IN  IF s.err # NoError
        THEN [packet |-> EmptyPacket, err |-> s.err]
        ELSE [packet |-> [data |-> s.data, size |-> Len(transaction.msg)], err |-> NoError]

ConvertTransactionToProtobufPacket(transaction) ==
    LET s == Serialize(transaction)
    IN  IF s.err # NoError
        THEN [packet |-> EmptyPacket, err |-> s.err]
        ELSE [packet |-> [data |-> s.data, size |-> Len(s.data)], err |-> NoError]

\* the loop of assemblePackets from (1-based) position k on, packets holding
\* what the earlier iterations appended; Go's index is k - 1
RECURSIVE assembleFrom(_, _, _)
assembleFrom(txs, k, packets) ==
    IF k > Len(txs)
    THEN [packets |-> packets, err |-> NoError]
    ELSE LET c == ConvertTransactionToProtobufPacket(txs[k])
         IN  IF c.err # NoError
             THEN [packets |-> <<>>,
                   err |-> MkError("assemble",
                                   <<ToString(k - 1), ": error converting tx to proto packet [">>
                                   \o c.err.message \o <<"]">>)]
             ELSE assembleFrom(txs, k + 1, Append(packets, c.packet))

RECURSIVE assembleSkipping(_, _, _)
assembleSkipping(txs, k, packets) ==
    IF k > Len(txs)
    THEN [packets |-> packets, err |-> NoError]
    ELSE LET c == ConvertTransactionToProtobufPacket(txs[k])
         IN  IF c.err # NoError
             THEN assembleSkipping(txs, k + 1, packets)
             ELSE assembleSkipping(txs, k + 1, Append(packets, c.packet))

assemblePackets_SkipFailed(txs) == assembleSkipping(txs, 1, <<>>)

assemblePackets(txs) == assembleFrom(txs, 1, <<>>)

-----------------------------------------------------------------------------
(* Bundle results (proto.BundleResult) and their classification *)

BR(kind, reason, txSignature, msg, auctionId, simulatedBidLamports) ==
    [kind |-> kind, reason |-> reason, txSignature |-> txSignature, msg |-> msg,
     auctionId |-> auctionId, simulatedBidLamports |-> simulatedBidLamports]

\* no bundle result received (the zero value of the local)
NoResult == BR("unset", "", "", "", "", 0)

TxSignatures == {"sigA", "sigB"}
Messages == {"insufficient funds", "blockhash expired"}
AuctionIds == {"auction1", "auction2"}
Lamports == {1000, 2000}

RejectionReasons ==
    {"SimulationFailure", "StateAuctionBidRejected", "WinningBatchBidRejected",
     "InternalError", "DroppedBundle"}

\* what the result stream can deliver: Accepted, the five rejections with
\* their fields, a rejection whose reason is not set, a result with no
\* Result set
BundleResults ==
    {BR("Accepted", "", "", "", "", 0)}
    \cup {BR("Rejected", "SimulationFailure", t, m, "", 0) : t \in TxSignatures, m \in Messages}
    \cup {BR("Rejected", r, "", "", a, l) :
            r \in {"StateAuctionBidRejected", "WinningBatchBidRejected"},
            a \in AuctionIds, l \in Lamports}
    \cup {BR("Rejected", r, "", m, "", 0) : r \in {"InternalError", "DroppedBundle"}, m \in Messages}
    \cup {BR("Rejected", "", "", "", "", 0), BR("None", "", "", "", "", 0)}

NewStateAuctionBidRejectedError(auction, tip) ==
    MkError("BundleRejectionError",
            <<"bundle lost state auction, auction: ", auction, ", tip ", ToString(tip), " lamports">>)

NewWinningBatchBidRejectedError(auction, tip) ==
    MkError("BundleRejectionError",
            <<"bundle won state auction but failed global auction, auction ", auction,
              ", tip ", ToString(tip), " lamports">>)

NewSimulationFailureError_NoMessage(tx, message) ==
    MkError("BundleRejectionError", <<"bundle simulation failure on tx ", tx>>)

NewSimulationFailureError(tx, message) ==
    MkError("BundleRejectionError",
            <<"bundle simulation failure on tx ", tx, ", message: ", message>>)

NewInternalError(message) ==
    MkError("BundleRejectionError", <<"internal error ", message>>)

NewDroppedBundle(message) ==
    MkError("BundleRejectionError", <<"bundle dropped ", message>>)

handleBundleResult_DropIgnored(r) ==
    IF r.kind = "Rejected"
    THEN CASE r.reason = "SimulationFailure" ->
                NewSimulationFailureError(r.txSignature, r.msg)
           [] r.reason = "StateAuctionBidRejected" ->
                NewStateAuctionBidRejectedError(r.auctionId, r.simulatedBidLamports)
           [] r.reason = "WinningBatchBidRejected" ->
                NewWinningBatchBidRejectedError(r.auctionId, r.simulatedBidLamports)
           [] r.reason = "InternalError" -> NewInternalError(r.msg)
           [] OTHER -> NoError
    ELSE NoError

handleBundleResult(r) ==
    IF r.kind = "Accepted" THEN NoError
    ELSE IF r.kind = "Rejected"
    THEN CASE r.reason = "SimulationFailure" ->
                NewSimulationFailureError(r.txSignature, r.msg)
           [] r.reason = "StateAuctionBidRejected" ->
                NewStateAuctionBidRejectedError(r.auctionId, r.simulatedBidLamports)
           [] r.reason = "WinningBatchBidRejected" ->
                NewWinningBatchBidRejectedError(r.auctionId, r.simulatedBidLamports)
           [] r.reason = "InternalError" -> NewInternalError(r.msg)
           [] r.reason = "DroppedBundle" -> NewDroppedBundle(r.msg)
           [] OTHER -> NoError
    ELSE NoError

-----------------------------------------------------------------------------
(* What a call returns: a value (nil, a bundle, a SendBundleResponse) and  *)
(* an error.                                                               *)

Nil == [kind |-> "nil", packets |-> <<>>, uuid |-> ""]
BundleOf(packets) == [kind |-> "bundle", packets |-> packets, uuid |-> ""]
Response(uuid) == [kind |-> "response", packets |-> <<>>, uuid |-> uuid]

NoReturn == [value |-> Nil, err |-> NoError]

SendBundleFailed == MkError("rpc", <<"SendBundle failed">>)
\* context.Canceled, the Err() of any cancelled context
ContextCanceled == MkError("context", <<"context canceled">>)
StatusRpcFailed == MkError("rpc", <<"GetSignatureStatuses failed">>)
\* the RPC client's error for a request whose context is cancelled
StatusRpcCanceled == MkError("rpc", <<"GetSignatureStatuses failed: ", "context canceled">>)
TimeoutErr == MkError("error", <<"operation timed out after 15 seconds">>)
NotConfirmedErr == MkError("error", <<"searcher service did not provide bundle status in time">>)
MaxRetriesErr == MkError("error", <<"error waiting for max retries exceeded">>)

\* BroadcastBundle: the outcomes of one call; sends is the bundles it handed
\* to SendBundle, whose answer (a response or an error) the engine chooses
BroadcastBundle(txs) ==
    LET a == assemblePackets(txs)
    IN  IF a.err # NoError
        THEN {[value |-> Nil, err |-> a.err, sends |-> <<>>]}
        ELSE {[value |-> Response("uuid-1"), err |-> NoError, sends |-> <<a.packets>>],
              [value |-> Nil, err |-> SendBundleFailed, sends |-> <<a.packets>>]}

\* pkg.BatchExtractSigFromTx: the first signature of every transaction
BatchExtractSigFromTx(txs) == [k \in 1..Len(txs) |-> txs[k].sigs[1]]

(* Ledger signature statuses (rpc.GetSignatureStatusesResult.Value): one   *)
(* entry per signature, "null" for a nil entry, else ConfirmationStatus.   *)
StatusSet == {"null", "processed", "confirmed", "finalized"}

StatusLists(n) == [1..n -> StatusSet]

\* l.291-298
Ready(st) == \A k \in 1..Len(st) : st[k] # "null"

StatusConfirms_OnlyConfirmed(status) == status = "confirmed"

StatusConfirms_AlsoFinalized(status) == status \in {"processed", "confirmed", "finalized"}

\* l.312
StatusConfirms(status) == status \in {"processed", "confirmed"}

TimedOut_Never(elapsed) == FALSE

\* l.304
TimedOut(elapsed) == elapsed > PollDeadline

RetryAllowed_OneMore(k) == k < Retries + 1

\* l.264: i < retries
RetryAllowed(k) == k < Retries

-----------------------------------------------------------------------------
(* The state after construction: no call made yet; the caller's            *)
(* transaction list is any list over TxPool of at most MaxTxs.             *)

\* no helper call made
NoCall == [value |-> "", err |-> NoError]

UtilIdle ==
    /\ upc = "idle"
    /\ uop = "none"
    /\ uin = <<>>
    /\ uout = NoCall
    /\ ucalls = 0

Gens == 1..MaxGens

\* the payload's filter (payload.Accounts, payload.Regions)
PayloadFilter == [accounts |-> <<"acct">>, regions |-> <<"ny">>]

\* var receipt *proto.PendingTxNotification: nil
NoReceipt == [isNil |-> TRUE, transactions |-> <<>>]

\* no subscription started
SubIdle ==
    /\ sret = "none"
    /\ sgen = 0
    /\ sfilters = <<>>
    /\ sloop = [g \in Gens |-> "none"]
    /\ serr = [g \in Gens |-> "nil"]
    /\ sreceipt = [g \in Gens |-> NoReceipt]
    /\ stasks = EmptyBag
    /\ spackets = 0
    /\ scancelled = FALSE
    /\ sdrain = [client |-> FALSE, sub |-> FALSE]
    /\ sreports = 0
    /\ sevents = {}

Callers == 1..MaxCallers

\* a message of the bundle-result stream: the bundle it is about, the result
ResultOf(bundleId, result) == [bundleId |-> bundleId, result |-> result]

NoMessage == ResultOf(<<>>, NoResult)

\* no confirmation call started
ConcIdle ==
    /\ cpc = [c \in Callers |-> "idle"]
    /\ ci = [c \in Callers |-> 0]
    /\ cuuid = [c \in Callers |-> <<>>]
    /\ cgot = [c \in Callers |-> NoMessage]
    /\ cret = [c \in Callers |-> NoReturn]
    /\ cstream = <<>>
    /\ cemitted = {}

Init ==
    /\ UtilIdle
    /\ SubIdle
    /\ ConcIdle
    /\ pc = "idle"
    /\ op = "none"
    /\ transactions \in TxLists
    /\ bundleSignatures = <<>>
    /\ sent = <<>>
    /\ resp = Nil
    /\ i = 0
    /\ recvCount = 0
    /\ now = 0
    /\ start = 0
    /\ bundleResult = NoResult
    /\ gotResult = FALSE
    /\ statuses = <<>>
    /\ rpcErr = FALSE
    /\ pollCount = 0
    /\ lastPollEnd = 0
    /\ latePolls = 0
    /\ ret = NoReturn
    /\ grpcCtxDone = FALSE
    /\ callerCtxDone = FALSE
    /\ cancelledEarly = FALSE

\* the call returns (value, err)
Return(value, err) ==
    /\ pc' = "done"
    /\ ret' = [value |-> value, err |-> err]

loopVars == <<i, recvCount, bundleResult, gotResult>>
pollVars == <<start, statuses, rpcErr, pollCount, lastPollEnd, latePolls>>
ctxVars == <<grpcCtxDone, callerCtxDone, cancelledEarly>>

\* AssembleBundle, l.411-418
AssembleBundle ==
    /\ pc = "idle"
    /\ op' = "AssembleBundle"
    /\ LET a == assemblePackets(transactions)
       IN  IF a.err # NoError
           THEN Return(Nil, a.err)
           ELSE Return(BundleOf(a.packets), NoError)
    /\ UNCHANGED <<transactions, bundleSignatures, sent, resp, now, loopVars, pollVars, ctxVars>>
    /\ UNCHANGED nonEngineVars

\* BroadcastBundle called by the user, l.241-248
CallBroadcastBundle ==
    /\ pc = "idle"
    /\ op' = "BroadcastBundle"
    /\ \E o \in BroadcastBundle(transactions) :
          /\ sent' = sent \o o.sends
          /\ Return(o.value, o.err)
    /\ UNCHANGED <<transactions, bundleSignatures, resp, now, loopVars, pollVars, ctxVars>>
    /\ UNCHANGED nonEngineVars

\* BroadcastBundleWithConfirmation, l.251-257: the signatures are extracted
\* first.  The extraction reads the first signature of every transaction, so
\* the call is modelled for lists of signed transactions.
BWC_Begin ==
    /\ pc = "idle"
    /\ \A k \in 1..Len(transactions) : Len(transactions[k].sigs) > 0
    /\ op' = "BroadcastBundleWithConfirmation"
    /\ bundleSignatures' = BatchExtractSigFromTx(transactions)
    /\ pc' = "broadcast"
    /\ UNCHANGED <<transactions, sent, resp, now, ret, loopVars, pollVars, ctxVars>>
    /\ UNCHANGED nonEngineVars

\* l.258-263: the one submission, then the retry loop starts with i = 0
BWC_Broadcast ==
    /\ pc = "broadcast"
    /\ \E o \in BroadcastBundle(transactions) :
          /\ sent' = sent \o o.sends
          /\ resp' = o.value
          /\ IF o.err # NoError
             THEN Return(Nil, o.err)
             ELSE pc' = "loop" /\ UNCHANGED ret
    /\ i' = 0
    /\ UNCHANGED <<op, transactions, bundleSignatures, now, recvCount, bundleResult,
                   gotResult, pollVars, ctxVars>>
    /\ UNCHANGED nonEngineVars

\* l.264-268 and l.321: the loop condition, then the select on
\* c.Auth.GrpcCtx.Done() with its default branch
BWC_Loop ==
    /\ pc = "loop"
    /\ IF ~RetryAllowed(i)
       THEN Return(Nil, MaxRetriesErr)
       ELSE IF grpcCtxDone
            THEN Return(Nil, ContextCanceled)
            ELSE pc' = "wait" /\ UNCHANGED ret
    /\ UNCHANGED <<op, transactions, bundleSignatures, sent, resp, now, loopVars,
                   pollVars, ctxVars>>
    /\ UNCHANGED nonEngineVars

\* l.271: time.Sleep(5 * time.Second)
BWC_Wait ==
    /\ pc = "wait"
    /\ now' = now + RecvDelay
    /\ pc' = "recv"
    /\ UNCHANGED <<op, transactions, bundleSignatures, sent, resp, ret, loopVars,
                   pollVars, ctxVars>>
    /\ UNCHANGED nonEngineVars

BWC_RecvFail_Resend ==
    /\ pc = "recv"
    /\ recvCount' = recvCount + 1
    /\ i' = i + 1
    /\ pc' = "loop"
    /\ sent' = sent \o <<assemblePackets(transactions).packets>>
    /\ UNCHANGED <<op, transactions, bundleSignatures, resp, now, ret, bundleResult,
                   gotResult, pollVars, ctxVars>>
    /\ UNCHANGED nonEngineVars

\* l.274-277: Recv() fails; continue with i++
BWC_RecvFail ==
    /\ pc = "recv"
    /\ recvCount' = recvCount + 1
    /\ i' = i + 1
    /\ pc' = "loop"
    /\ UNCHANGED <<op, transactions, bundleSignatures, sent, resp, now, ret, bundleResult,
                   gotResult, pollVars, ctxVars>>
    /\ UNCHANGED nonEngineVars

\* l.274 and l.279-284: Recv() delivers a bundle result, which is classified;
\* an error is returned, else the polling phase starts
BWC_Recv ==
    /\ pc = "recv"
    /\ \E r \in BundleResults :
          /\ bundleResult' = r
          /\ LET e == handleBundleResult(r)
             IN  IF e # NoError
                 THEN Return(Nil, e) /\ UNCHANGED start
                 ELSE pc' = "poll" /\ start' = now /\ UNCHANGED ret
    /\ recvCount' = recvCount + 1
    /\ gotResult' = TRUE
    /\ UNCHANGED <<op, transactions, bundleSignatures, sent, resp, now, i, statuses,
                   rpcErr, pollCount, lastPollEnd, latePolls, ctxVars>>
    /\ UNCHANGED nonEngineVars

\* l.287-309 and l.311-317: one GetSignatureStatuses RPC.  It fails (always,
\* when ctx is cancelled) or returns one status per signature; then the
\* ready check, the final check or the deadline check.
BWC_Poll ==
    /\ pc = "poll"
    /\ lastPollEnd' = now
    /\ \/ /\ rpcErr' = TRUE
          /\ statuses' = <<>>
          /\ Return(Nil, IF callerCtxDone THEN StatusRpcCanceled ELSE StatusRpcFailed)
       \/ /\ ~callerCtxDone
          /\ rpcErr' = FALSE
          /\ \E st \in StatusLists(Len(bundleSignatures)) :
                /\ statuses' = st
                /\ IF Ready(st)
                   THEN IF \A k \in 1..Len(st) : StatusConfirms(st[k])
                        THEN Return(resp, NoError)
                        ELSE Return(Nil, NotConfirmedErr)
                   ELSE IF TimedOut(now - start)
                        THEN Return(Nil, TimeoutErr)
                        ELSE pc' = "pollSleep" /\ UNCHANGED ret
    /\ pollCount' = pollCount + 1
    /\ latePolls' = latePolls + (IF now - start > PollDeadline THEN 1 ELSE 0)
    /\ UNCHANGED <<op, transactions, bundleSignatures, sent, resp, now, start, loopVars,
                   ctxVars>>
    /\ UNCHANGED nonEngineVars

\* l.307: time.Sleep(1 * time.Second)
BWC_PollSleep ==
    /\ pc = "pollSleep"
    /\ now' = now + PollPause
    /\ pc' = "poll"
    /\ UNCHANGED <<op, transactions, bundleSignatures, sent, resp, ret, loopVars,
                   pollVars, ctxVars>>
    /\ UNCHANGED nonEngineVars

\* the session's context (c.Auth.GrpcCtx) is cancelled, before the call has
\* returned
CancelGrpcCtx ==
    /\ pc # "done"
    /\ ~grpcCtxDone
    /\ grpcCtxDone' = TRUE
    /\ UNCHANGED <<pc, op, transactions, bundleSignatures, sent, resp, now, ret, loopVars,
                   pollVars, callerCtxDone, cancelledEarly>>
    /\ UNCHANGED nonEngineVars

\* the caller cancels the ctx it passed (or will pass) to the call, before
\* the call has returned
CancelCallerCtx ==
    /\ pc # "done"
    /\ ~callerCtxDone
    /\ callerCtxDone' = TRUE
    /\ cancelledEarly' = (pc \in {"loop", "wait", "recv"})
    /\ UNCHANGED <<pc, op, transactions, bundleSignatures, sent, resp, now, ret, loopVars,
                   pollVars, grpcCtxDone>>
    /\ UNCHANGED nonEngineVars

Next ==
    \/ AssembleBundle
    \/ CallBroadcastBundle
    \/ BWC_Begin
    \/ BWC_Broadcast
    \/ BWC_Loop
    \/ BWC_Wait
    \/ BWC_RecvFail
    \/ BWC_Recv
    \/ BWC_Poll
    \/ BWC_PollSleep
    \/ CancelGrpcCtx
    \/ CancelCallerCtx

Spec == Init /\ [][Next]_allVars

\* the steps BroadcastBundleWithConfirmation takes on its own once called
BWC_Step ==
    \/ BWC_Broadcast
    \/ BWC_Loop
    \/ BWC_Wait
    \/ BWC_RecvFail
    \/ BWC_Recv
    \/ BWC_Poll
    \/ BWC_PollSleep

\* every SendBundle, Recv() and GetSignatureStatuses call returns and every
\* sleep ends: the call is not held up for ever at any of its steps
FairInit == Init /\ Len(transactions) <= MaxFairTxs

FairSpec == FairInit /\ [][Next]_allVars /\ WF_allVars(BWC_Step)

\* the engine at rest, for the specifications of the other operations
EngineIdle ==
    /\ pc = "idle"
    /\ op = "none"
    /\ transactions = <<>>
    /\ bundleSignatures = <<>>
    /\ sent = <<>>
    /\ resp = Nil
    /\ i = 0
    /\ recvCount = 0
    /\ now = 0
    /\ start = 0
    /\ bundleResult = NoResult
    /\ gotResult = FALSE
    /\ statuses = <<>>
    /\ rpcErr = FALSE
    /\ pollCount = 0
    /\ lastPollEnd = 0
    /\ latePolls = 0
    /\ ret = NoReturn
    /\ grpcCtxDone = FALSE
    /\ callerCtxDone = FALSE
    /\ cancelledEarly = FALSE

-----------------------------------------------------------------------------
(* SimulateBundle, GetRandomTipAccount, GenerateTipRandomAccountInstruction *)

\* longest list of encoded transactions / of account configs a caller passes
MaxConfigs == 3
\* longest list of tip accounts the remote engine answers with
MaxTips == 2

ConfigMismatchErr ==
    MkError("error", <<"pre/post execution account config length must match bundle length">>)
SimulateRpcFailed == MkError("rpc", <<"simulateBundle failed">>)
TipRpcFailed == MkError("rpc", <<"GetTipAccounts failed">>)

\* base58 addresses of tip accounts
TipPool == {"tipA", "tipB", "tipC"}
TipLists == SeqsUpTo(TipPool, MaxTips)
TipAmounts == {1000, 2000}

\* SimulateBundle, l.400-409: n encoded transactions, pre and post account
\* configs; the RPC, when it is made, answers or fails, and out is returned
\* either way
SimulateBundle ==
    /\ upc = "idle"
    /\ uop' = "SimulateBundle"
    /\ upc' = "done"
    /\ \E n \in 0..MaxConfigs, pre \in 0..MaxConfigs, post \in 0..MaxConfigs :
          /\ uin' = [encodedTransactions |-> n, preExecutionAccountsConfigs |-> pre,
                     postExecutionAccountsConfigs |-> post]
          /\ IF n # pre
             THEN /\ uout' = [value |-> "", err |-> ConfigMismatchErr]
                  /\ ucalls' = ucalls
             ELSE /\ ucalls' = ucalls + 1
                  /\ \E e \in {NoError, SimulateRpcFailed} :
                        uout' = [value |-> "out", err |-> e]
    /\ UNCHANGED nonUtilVars

\* GetRandomTipAccount, l.221-229, on what GetTipAccounts answers: an error,
\* or the list accounts; k is rand.Intn(len(accounts)), which panics when the
\* list is empty
RandomTipOutcomes(failed, accounts) ==
    IF failed
    THEN {[pc |-> "done", value |-> "", err |-> TipRpcFailed]}
    ELSE IF Len(accounts) = 0
    THEN {[pc |-> "panicked", value |-> "", err |-> NoError]}
    ELSE {[pc |-> "done", value |-> accounts[k + 1], err |-> NoError] :
             k \in 0..(Len(accounts) - 1)}

GetRandomTipAccount ==
    /\ upc = "idle"
    /\ uop' = "GetRandomTipAccount"
    /\ ucalls' = ucalls + 1
    /\ \E failed \in BOOLEAN, accounts \in TipLists :
          /\ failed => accounts = <<>>
          /\ uin' = [failed |-> failed, accounts |-> accounts]
          /\ \E o \in RandomTipOutcomes(failed, accounts) :
                /\ upc' = o.pc
                /\ uout' = [value |-> o.value, err |-> o.err]
    /\ UNCHANGED nonUtilVars

\* GenerateTipRandomAccountInstruction, l.425-433: a transfer of tipAmount to
\* the account GetRandomTipAccount picked
GenerateTipRandomAccountInstruction ==
    /\ upc = "idle"
    /\ uop' = "GenerateTipRandomAccountInstruction"
    /\ ucalls' = ucalls + 1
    /\ \E failed \in BOOLEAN, accounts \in TipLists, tipAmount \in TipAmounts :
          /\ failed => accounts = <<>>
          /\ uin' = [failed |-> failed, accounts |-> accounts, tipAmount |-> tipAmount]
          /\ \E o \in RandomTipOutcomes(failed, accounts) :
                /\ upc' = o.pc
                /\ uout' = [value |-> IF o.pc = "done" /\ o.err = NoError
                                         THEN ToString(tipAmount) \o " -> " \o o.value
                                         ELSE "",
                            err |-> o.err]
    /\ UNCHANGED nonUtilVars

UtilInit == EngineIdle /\ UtilIdle /\ SubIdle /\ ConcIdle

UtilNext ==
    \/ SimulateBundle
    \/ GetRandomTipAccount
    \/ GenerateTipRandomAccountInstruction

UtilSpec == UtilInit /\ [][UtilNext]_allVars

-----------------------------------------------------------------------------
(* SubscribeAccountsMempoolTransactions / SubscribeProgramsMempoolTransactions *)
(* (the two are the same code but for the stream constructor they call).      *)
(*                                                                            *)
(* One invocation opens a stream and starts a goroutine running the receive   *)
(* loop; the loop starts one goroutine per packet of a notification.  The     *)
(* invocation's err variable is captured by the loop, by every decode         *)
(* goroutine and by the deferred recover handler, with no synchronisation:    *)
(* a write of err and the read that follows it are two steps, and a read      *)
(* sees the latest write of any of them.                                      *)
(* The channels are unbuffered: a send completes when a consumer receives.    *)

\* the receipts sub.Recv() can return: each packet decodes ("good") or not
Batches(n) == UNION {[1..k -> {"good", "bad"}] : k \in 0..n}

\* a decode goroutine: its stream generation, its packet, its position
Task(g, packet, at) == [gen |-> g, packet |-> packet, pc |-> at]

One(t) == SetToBag({t})

RECURSIVE Spawn(_, _, _)
\* for _, transaction := range receipt.Transactions { go func(transaction) ... }
Spawn(tasks, g, txs) ==
    IF txs = <<>> THEN tasks
    ELSE Spawn(tasks (+) One(Task(g, Head(txs), "convert")), g, Tail(txs))

\* the loop of generation g has not ended
LoopRunning(g) == sloop[g] \in {"select", "recv", "check", "sendErr"}

\* sub, err := c.NewMempoolStream...(payload.Accounts, payload.Regions), then
\* go func() { ... }(): what one invocation does to the subscription's state
OpenStream(ok) ==
    IF ok
    THEN /\ sgen' = sgen + 1
         /\ sfilters' = Append(sfilters, PayloadFilter)
    ELSE UNCHANGED <<sgen, sfilters>>

\* the caller's invocation; the caller has or has not a consumer on
\* c.ErrChan, and on payload.TxCh and payload.ErrCh
Subscribe ==
    /\ sret = "none"
    /\ \E ok \in BOOLEAN :
        /\ OpenStream(ok)
        /\ sret' = IF ok THEN "nil" ELSE "err"
        /\ sloop' = IF ok THEN [sloop EXCEPT ![1] = "select"] ELSE sloop
    /\ sdrain' \in [client : BOOLEAN, sub : BOOLEAN]
    /\ UNCHANGED <<serr, sreceipt, stasks, scancelled, sreports>>
    /\ sevents' = {}
    /\ UNCHANGED spackets
    /\ UNCHANGED nonSubVars

\* cancel() of payload.Ctx, at any time
CancelPayloadCtx ==
    /\ sret = "nil"
    /\ ~scancelled
    /\ scancelled' = TRUE
    /\ UNCHANGED <<sret, sgen, sfilters, sloop, serr, sreceipt, stasks, sdrain,
                   sreports>>
    /\ sevents' = {}
    /\ UNCHANGED spackets
    /\ UNCHANGED nonSubVars

\* select { case <-payload.Ctx.Done(): return; default: ... }
LoopSelect(g) ==
    /\ sloop[g] = "select"
    /\ sloop' = [sloop EXCEPT ![g] = IF scancelled THEN "done" ELSE "recv"]
    /\ UNCHANGED <<sret, sgen, sfilters, serr, sreceipt, stasks, scancelled,
                   sdrain, sreports>>
    /\ sevents' = {}
    /\ UNCHANGED spackets
    /\ UNCHANGED nonSubVars

\* the event named e, when c
Ev(c, e) == IF c THEN {e} ELSE {}

\* receipt, err = sub.Recv(): a notification, or nil and an error
LoopRecv(g) ==
    /\ sloop[g] = "recv"
    /\ spackets < MaxPackets
    /\ \/ /\ serr' = [serr EXCEPT ![g] = "recv"]
          /\ sreceipt' = [sreceipt EXCEPT ![g] = NoReceipt]
          /\ spackets' = spackets + 1
       \/ \E b \in Batches(MaxPackets - spackets) :
          /\ serr' = [serr EXCEPT ![g] = "nil"]
          /\ sreceipt' = [sreceipt EXCEPT ![g] = [isNil |-> FALSE, transactions |-> b]]
          /\ spackets' = spackets + (IF b = <<>> THEN 1 ELSE Len(b))
    /\ sloop' = [sloop EXCEPT ![g] = "check"]
    /\ sevents' = Ev(scancelled, "recvAfterCancel")
    /\ UNCHANGED <<sret, sgen, sfilters, stasks, scancelled, sdrain, sreports>>
    /\ UNCHANGED nonSubVars

\* if err != nil { c.ErrChan <- ...; continue }, else the range over
\* receipt.Transactions (a nil receipt panics there)
LoopCheck(g) ==
    /\ sloop[g] = "check"
    /\ IF serr[g] # "nil"
       THEN /\ sloop' = [sloop EXCEPT ![g] = "sendErr"]
            /\ sevents' = Ev(~sreceipt[g].isNil, "batchSkipped")
            /\ UNCHANGED stasks
       ELSE IF sreceipt[g].isNil
       THEN /\ sloop' = [sloop EXCEPT ![g] = "recover"]
            /\ sevents' = {"nilReceipt"}
            /\ UNCHANGED stasks
       ELSE /\ stasks' = Spawn(stasks, g, sreceipt[g].transactions)
            /\ sloop' = [sloop EXCEPT ![g] = "select"]
            /\ sevents' = {}
    /\ sreceipt' = [sreceipt EXCEPT ![g] = NoReceipt]
    /\ UNCHANGED <<sret, sgen, sfilters, serr, scancelled, sdrain, sreports>>
    /\ UNCHANGED spackets
    /\ UNCHANGED nonSubVars

\* the send c.ErrChan <- fmt.Errorf("...failed to receive mempool
\* notification: %w", err) completing, then continue
LoopSendErr(g) ==
    /\ sloop[g] = "sendErr"
    /\ sdrain.client
    /\ sloop' = [sloop EXCEPT ![g] = "select"]
    /\ sevents' = {"recvErrOnClientChan"} \cup Ev(scancelled, "errAfterCancel")
    /\ UNCHANGED <<sret, sgen, sfilters, serr, sreceipt, stasks, scancelled,
                   sdrain, sreports>>
    /\ UNCHANGED spackets
    /\ UNCHANGED nonSubVars

\* a panic raised while the loop is in sub.Recv(): the deferred function runs
LoopPanic(g) ==
    /\ sloop[g] = "recv"
    /\ sgen < MaxGens
    /\ sloop' = [sloop EXCEPT ![g] = "recover"]
    /\ UNCHANGED <<sret, sgen, sfilters, serr, sreceipt, stasks, scancelled,
                   sdrain, sreports>>
    /\ sevents' = {}
    /\ UNCHANGED spackets
    /\ UNCHANGED nonSubVars

Restart_KeepLoop(g) ==
    /\ sloop[g] = "recover"
    /\ \E ok \in (IF sgen < MaxGens THEN BOOLEAN ELSE {FALSE}) :
        /\ OpenStream(ok)
        /\ sloop' = IF ok
                    THEN [sloop EXCEPT ![g] = "select", ![sgen + 1] = "select"]
                    ELSE [sloop EXCEPT ![g] = "recovered"]
        /\ serr' = [serr EXCEPT ![g] = IF ok THEN "nil" ELSE "restart"]
        /\ sevents' = Ev(~ok, "restartFailed")
    /\ UNCHANGED <<sret, sreceipt, stasks, scancelled, sdrain, sreports>>
    /\ UNCHANGED spackets
    /\ UNCHANGED nonSubVars

\* if r := recover(); r != nil { err = c.Subscribe...(payload) ... }: the
\* invocation with the same payload, and the write of its result to err
Restart(g) ==
    /\ sloop[g] = "recover"
    /\ \E ok \in (IF sgen < MaxGens THEN BOOLEAN ELSE {FALSE}) :
        /\ OpenStream(ok)
        /\ sloop' = IF ok
                    THEN [sloop EXCEPT ![g] = "recovered", ![sgen + 1] = "select"]
                    ELSE [sloop EXCEPT ![g] = "recovered"]
        /\ serr' = [serr EXCEPT ![g] = IF ok THEN "nil" ELSE "restart"]
        /\ sevents' = Ev(~ok, "restartFailed")
    /\ UNCHANGED <<sret, sreceipt, stasks, scancelled, sdrain, sreports>>
    /\ UNCHANGED spackets
    /\ UNCHANGED nonSubVars

\* ...; err != nil { payload.ErrCh <- ...; return }: the read of err
RestartCheck(g) ==
    /\ sloop[g] = "recovered"
    /\ sloop' = [sloop EXCEPT ![g] = IF serr[g] # "nil" THEN "report" ELSE "dead"]
    /\ sevents' = Ev(serr[g] = "nil" /\ sgen = g, "restartUnreported")
                          \cup Ev(serr[g] # "nil" /\ sgen > g, "restartMisreported")
    /\ UNCHANGED <<sret, sgen, sfilters, serr, sreceipt, stasks, scancelled,
                   sdrain, sreports>>
    /\ UNCHANGED spackets
    /\ UNCHANGED nonSubVars

\* the send payload.ErrCh <- fmt.Errorf("...recovered from panic but unable
\* to restart sub stream: %w", err) completing, then return
RestartReport(g) ==
    /\ sloop[g] = "report"
    /\ sdrain.sub
    /\ sloop' = [sloop EXCEPT ![g] = "dead"]
    /\ sreports' = sreports + 1
    /\ UNCHANGED <<sret, sgen, sfilters, serr, sreceipt, stasks, scancelled,
                   sdrain>>
    /\ sevents' = {}
    /\ UNCHANGED spackets
    /\ UNCHANGED nonSubVars

\* the task t taking a step to position at
Step(t, at) == (stasks (-) One(t)) (+) One(Task(t.gen, t.packet, at))

\* tx, err = pkg.ConvertProtobufPacketToTransaction(transaction): the
\* transaction or nil, and the write of err
TaskConvert(t) ==
    /\ BagIn(t, stasks)
    /\ t.pc = "convert"
    /\ serr' = [serr EXCEPT ![t.gen] = IF t.packet = "good" THEN "nil" ELSE "decode"]
    /\ stasks' = Step(t, "check")
    /\ UNCHANGED <<sret, sgen, sfilters, sloop, sreceipt, scancelled, sdrain,
                   sreports>>
    /\ sevents' = {}
    /\ UNCHANGED spackets
    /\ UNCHANGED nonSubVars

\* if err != nil { c.ErrChan <- ...; return }: the read of err
TaskCheck(t) ==
    /\ BagIn(t, stasks)
    /\ t.pc = "check"
    /\ stasks' = Step(t, IF serr[t.gen] # "nil" THEN "sendErr" ELSE "push")
    /\ sevents' = Ev(serr[t.gen] # "nil" /\ t.packet = "good", "goodDropped")
    /\ UNCHANGED <<sret, sgen, sfilters, sloop, serr, sreceipt, scancelled,
                   sdrain, sreports>>
    /\ UNCHANGED spackets
    /\ UNCHANGED nonSubVars

\* the send c.ErrChan <- fmt.Errorf("...failed to convert protobuf packet
\* to transaction: %w", err) completing, then return
TaskSendErr(t) ==
    /\ BagIn(t, stasks)
    /\ t.pc = "sendErr"
    /\ sdrain.client
    /\ stasks' = stasks (-) One(t)
    /\ sevents' = Ev(scancelled, "errAfterCancel")
    /\ UNCHANGED <<sret, sgen, sfilters, sloop, serr, sreceipt, scancelled,
                   sdrain, sreports>>
    /\ UNCHANGED spackets
    /\ UNCHANGED nonSubVars

\* the send payload.TxCh <- tx completing: tx is nil when the decode failed
TaskPush(t) ==
    /\ BagIn(t, stasks)
    /\ t.pc = "push"
    /\ sdrain.sub
    /\ stasks' = stasks (-) One(t)
    /\ sevents' = Ev(t.packet = "bad", "nilPushed")
                          \cup Ev(t.gen < sgen /\ LoopRunning(sgen), "stalePush")
    /\ UNCHANGED <<sret, sgen, sfilters, sloop, serr, sreceipt, scancelled,
                   sdrain, sreports>>
    /\ UNCHANGED spackets
    /\ UNCHANGED nonSubVars

\* every decode goroutine there can be
Tasks == {Task(g, packet, at) : g \in Gens, packet \in {"good", "bad"},
                                at \in {"convert", "check", "sendErr", "push"}}

SubInit == EngineIdle /\ UtilIdle /\ SubIdle /\ ConcIdle

SubNext ==
    \/ Subscribe
    \/ CancelPayloadCtx
    \/ \E g \in Gens : LoopSelect(g)
    \/ \E g \in Gens : LoopRecv(g)
    \/ \E g \in Gens : LoopCheck(g)
    \/ \E g \in Gens : LoopSendErr(g)
    \/ \E g \in Gens : LoopPanic(g)
    \/ \E g \in Gens : Restart(g)
    \/ \E g \in Gens : RestartCheck(g)
    \/ \E g \in Gens : RestartReport(g)
    \/ \E t \in Tasks : TaskConvert(t)
    \/ \E t \in Tasks : TaskCheck(t)
    \/ \E t \in Tasks : TaskSendErr(t)
    \/ \E t \in Tasks : TaskPush(t)

SubSpec == SubInit /\ [][SubNext]_allVars

-----------------------------------------------------------------------------
(* Several BroadcastBundleWithConfirmation calls running at once on one       *)
(* client.  The client has one bundle-result stream, opened in New; every     *)
(* call reads its next message.  What a call does with the ledger once a      *)
(* result let it through is the polling of the engine above, here one step.   *)

\* the uuid the block engine gives the bundle of caller c
UuidOf(c) == <<"bundle", c>>

\* the results the block engine sends for a bundle
ConcResults ==
    {BR("Accepted", "", "", "", "", 0),
     BR("Rejected", "DroppedBundle", "", "blockhash expired", "", 0),
     BR("Rejected", "SimulationFailure", "sigA", "insufficient funds", "", 0)}

\* resp, err := c.BroadcastBundle(transactions) succeeding, up to the loop
ConcBroadcast(c) ==
    /\ cpc[c] = "idle"
    /\ cuuid' = [cuuid EXCEPT ![c] = UuidOf(c)]
    /\ cpc' = [cpc EXCEPT ![c] = "loop"]
    /\ UNCHANGED <<ci, cgot, cret, cstream, cemitted>>
    /\ UNCHANGED nonConcVars

\* the block engine sends the result of a submitted bundle, once per bundle
ConcEmit(c) ==
    /\ cpc[c] # "idle"
    /\ UuidOf(c) \notin cemitted
    /\ cemitted' = cemitted \cup {UuidOf(c)}
    /\ \E r \in ConcResults : cstream' = Append(cstream, ResultOf(UuidOf(c), r))
    /\ UNCHANGED <<cpc, ci, cuuid, cgot, cret>>
    /\ UNCHANGED nonConcVars

\* for i := 0; i < retries; i++ { ... } return nil, "max retries exceeded"
ConcLoop(c) ==
    /\ cpc[c] = "loop"
    /\ IF RetryAllowed(ci[c])
       THEN /\ cpc' = [cpc EXCEPT ![c] = "recv"]
            /\ UNCHANGED cret
       ELSE /\ cpc' = [cpc EXCEPT ![c] = "done"]
            /\ cret' = [cret EXCEPT ![c] = [value |-> Nil, err |-> MaxRetriesErr]]
    /\ UNCHANGED <<ci, cuuid, cgot, cstream, cemitted>>
    /\ UNCHANGED nonConcVars

\* bundleResult, err = c.SubscribeBundleStream.Recv(); if err != nil { continue }
ConcRecvFail(c) ==
    /\ cpc[c] = "recv"
    /\ cpc' = [cpc EXCEPT ![c] = "loop"]
    /\ ci' = [ci EXCEPT ![c] = ci[c] + 1]
    /\ UNCHANGED <<cuuid, cgot, cret, cstream, cemitted>>
    /\ UNCHANGED nonConcVars

\* bundleResult, err = c.SubscribeBundleStream.Recv() returning the next
\* message of the stream; if err = c.handleBundleResult(bundleResult);
\* err != nil { return nil, err }
ConcRecv(c) ==
    /\ cpc[c] = "recv"
    /\ cstream # <<>>
    /\ cstream' = Tail(cstream)
    /\ cgot' = [cgot EXCEPT ![c] = Head(cstream)]
    /\ LET err == handleBundleResult(Head(cstream).result)
       IN  IF err # NoError
           THEN /\ cpc' = [cpc EXCEPT ![c] = "done"]
                /\ cret' = [cret EXCEPT ![c] = [value |-> Nil, err |-> err]]
           ELSE /\ cpc' = [cpc EXCEPT ![c] = "poll"]
                /\ UNCHANGED cret
    /\ UNCHANGED <<ci, cuuid, cemitted>>
    /\ UNCHANGED nonConcVars

\* the polling of the signature statuses and the final status check
ConcPoll(c) ==
    /\ cpc[c] = "poll"
    /\ cpc' = [cpc EXCEPT ![c] = "done"]
    /\ \E r \in {[value |-> Response(cuuid[c]), err |-> NoError],
                 [value |-> Nil, err |-> StatusRpcFailed],
                 [value |-> Nil, err |-> TimeoutErr],
                 [value |-> Nil, err |-> NotConfirmedErr]} :
           cret' = [cret EXCEPT ![c] = r]
    /\ UNCHANGED <<ci, cuuid, cgot, cstream, cemitted>>
    /\ UNCHANGED nonConcVars

ConcInit == EngineIdle /\ UtilIdle /\ SubIdle /\ ConcIdle

ConcNext ==
    \/ \E c \in Callers : ConcBroadcast(c)
    \/ \E c \in Callers : ConcEmit(c)
    \/ \E c \in Callers : ConcLoop(c)
    \/ \E c \in Callers : ConcRecvFail(c)
    \/ \E c \in Callers : ConcRecv(c)
    \/ \E c \in Callers : ConcPoll(c)

ConcSpec == ConcInit /\ [][ConcNext]_allVars

-----------------------------------------------------------------------------
(* Properties *)

Confirming == op = "BroadcastBundleWithConfirmation"

FiveRejection(r) == r.kind = "Rejected" /\ r.reason \in RejectionReasons

AllSerialize(txs) == \A k \in 1..Len(txs) : Serialize(txs[k]).err = NoError

\* the (1-based) position of the first transaction that does not serialize
FirstFailing(txs) ==
    CHOOSE k \in 1..Len(txs) :
        /\ Serialize(txs[k]).err # NoError
        /\ \A j \in 1..(k - 1) : Serialize(txs[j]).err = NoError

\* packets is the one-to-one, in-order serialization of txs
PacketsOf(packets, txs) ==
    /\ Len(packets) = Len(txs)
    /\ \A k \in 1..Len(txs) :
          /\ packets[k].data = Serialize(txs[k]).data
          /\ packets[k].size = Len(packets[k].data)

\* C1: a call of BroadcastBundle or BroadcastBundleWithConfirmation hands the
\* bundle to SendBundle at most once, however many receive attempts fail.
C1_SendAtMostOnce == Len(sent) <= 1

C1_Witness == Confirming /\ pc = "done" /\ Len(sent) = 1 /\ recvCount >= 3

\* C2: a bundle result that is one of the five rejections ends the call at
\* once with a BundleRejectionError and no result: GetSignatureStatuses is
\* never called and no further Recv() is made.
C2_RejectionIsTerminal ==
    /\ [](FiveRejection(bundleResult) =>
            /\ pc = "done"
            /\ ret.value = Nil
            /\ ret.err.kind = "BundleRejectionError"
            /\ pollCount = 0)
    /\ [][FiveRejection(bundleResult) =>
            (recvCount' = recvCount /\ pollCount' = pollCount /\ sent' = sent)]_vars

C2_Witness ==
    /\ pc = "done"
    /\ Len(transactions) = 2
    /\ bundleResult = BR("Rejected", "SimulationFailure", "sigA", "insufficient funds", "", 0)
    /\ Contains(ret.err.message, "sigA")
    /\ Contains(ret.err.message, "insufficient funds")
    /\ pollCount = 0

\* C3: when every transaction serializes, AssembleBundle returns a bundle of
\* exactly Len(transactions) packets, packet k holding the serialization of
\* transaction k and its size the length of its data; the bundle a broadcast
\* submits is the same.
C3_AssembleOneToOne ==
    AllSerialize(transactions) =>
        /\ (op = "AssembleBundle" /\ pc = "done") =>
              /\ ret.err = NoError
              /\ ret.value.kind = "bundle"
              /\ PacketsOf(ret.value.packets, transactions)
        /\ \A k \in 1..Len(sent) : PacketsOf(sent[k], transactions)

C3_Witness ==
    /\ op = "AssembleBundle"
    /\ pc = "done"
    /\ Len(transactions) = 2
    /\ transactions[1] # transactions[2]
    /\ AllSerialize(transactions)
    /\ Len(ret.value.packets) = 2

\* C4: when some transaction does not serialize, the call returns no value
\* and an error that starts with the (0-based) index of the first such
\* transaction, and nothing is handed to SendBundle.
C4_AssembleIndexedError ==
    ~AllSerialize(transactions) =>
        /\ sent = <<>>
        /\ pc = "done" =>
              /\ ret.value = Nil
              /\ ret.err.kind = "assemble"
              /\ ret.err.message[1] = ToString(FirstFailing(transactions) - 1)

C4_Witness ==
    /\ op = "BroadcastBundle"
    /\ pc = "done"
    /\ Len(transactions) = 2
    /\ Serialize(transactions[1]).err = NoError
    /\ Serialize(transactions[2]).err # NoError
    /\ ret.err.message[1] = "1"

\* C5: with an Accepted bundle result, a first poll that shows every signature
\* Processed or Confirmed ends the call with the SendBundle response and no
\* error; no second poll is made.
C5_FirstPollConfirms ==
    ( /\ Confirming
      /\ bundleResult.kind = "Accepted"
      /\ pollCount = 1
      /\ ~rpcErr
      /\ \A k \in 1..Len(statuses) : statuses[k] \in {"processed", "confirmed"} )
    => /\ pc = "done"
       /\ ret = [value |-> resp, err |-> NoError]
       /\ resp.kind = "response"

C5_Witness ==
    /\ pc = "done"
    /\ bundleResult.kind = "Accepted"
    /\ pollCount = 1
    /\ statuses = <<"confirmed", "processed">>
    /\ ret.err = NoError
    /\ ret.value.kind = "response"

\* what C6 shares between its statement and its amendment: a poll that leaves
\* a status null with more than 15 s elapsed since the polling phase began
\* ends the call with the timeout error (and only such a poll does); a poll
\* after the first starts 1 s after the previous one returned.
C6_TimeoutAndPause ==
    /\ (Confirming /\ pollCount > 0 /\ ~rpcErr /\ ~Ready(statuses)
            /\ lastPollEnd - start > PollDeadline)
         => (pc = "done" /\ ret = [value |-> Nil, err |-> TimeoutErr])
    /\ (Confirming /\ pc = "done" /\ pollCount > 0 /\ ~rpcErr /\ ~Ready(statuses))
         => ret = [value |-> Nil, err |-> TimeoutErr]
    /\ ret.err = TimeoutErr => (~Ready(statuses) /\ lastPollEnd - start > PollDeadline)
    /\ (pc = "poll" /\ pollCount > 0) => now = lastPollEnd + PollPause

\* C6 as stated: the timeout, the 1-second pause, and no poll is issued once
\* the 15 s deadline has passed.
C6_NoPollPastDeadline ==
    /\ C6_TimeoutAndPause
    /\ latePolls = 0

\* C6 as amended: the timeout, the 1-second pause; no pause begins once the
\* deadline has passed, and at most one poll is issued past it.
C6_DeadlineCheckedAfterPoll ==
    /\ C6_TimeoutAndPause
    /\ pc = "pollSleep" => now - start <= PollDeadline
    /\ latePolls <= 1

C6_Witness ==
    /\ pc = "done"
    /\ statuses = <<"null", "confirmed">>
    /\ ret.err = TimeoutErr
    /\ now - start > PollDeadline

\* C7: once a poll shows every status non-null the call ends; it succeeds
\* (the SendBundle response, no error) exactly when every status is Processed
\* or Confirmed, and otherwise returns an error and no result.
C7_ConfirmedIffAllProcessedOrConfirmed ==
    (Confirming /\ pollCount > 0 /\ ~rpcErr /\ Ready(statuses)) =>
        /\ pc = "done"
        /\ IF \A k \in 1..Len(statuses) : statuses[k] \in {"processed", "confirmed"}
           THEN ret = [value |-> resp, err |-> NoError] /\ resp.kind = "response"
           ELSE ret.value = Nil /\ ret.err = NotConfirmedErr

C7_Witness ==
    /\ pc = "done"
    /\ statuses = <<"confirmed", "finalized">>
    /\ ret = [value |-> Nil, err |-> NotConfirmedErr]

\* C8: the stream is read at most 5 times, each read after a further 5 s
\* sleep; when all 5 reads fail the call returns the "max retries exceeded"
\* error without ever polling the ledger (and that error is returned in no
\* other case).
C8_MaxRetries ==
    /\ recvCount <= Retries
    /\ pc = "recv" => now = RecvDelay * (recvCount + 1)
    /\ (Confirming /\ pc = "done" /\ recvCount = Retries /\ ~gotResult)
         => ret = [value |-> Nil, err |-> MaxRetriesErr]
    /\ ret.err = MaxRetriesErr => (recvCount = Retries /\ ~gotResult /\ pollCount = 0)

C8_Witness ==
    /\ pc = "done"
    /\ recvCount = 5
    /\ now = 25
    /\ ret.err = MaxRetriesErr

\* C9: when the caller's ctx is cancelled while the call waits for a bundle
\* result, the call returns that context's error and no result.
C9_CallerCancellationReturned ==
    (Confirming /\ pc = "done" /\ cancelledEarly) =>
        /\ ret.value = Nil
        /\ Contains(ret.err.message, "context canceled")

\* C10: the classifier lets an Accepted result through with no error, and
\* turns each of the five rejections into a BundleRejectionError whose text
\* holds that reason's fields.
C10_ClassifierCarriesFields ==
    gotResult =>
        /\ bundleResult.kind = "Accepted" => ret.err.kind # "BundleRejectionError"
        /\ FiveRejection(bundleResult) => ret.err.kind = "BundleRejectionError"
        /\ (FiveRejection(bundleResult) /\ bundleResult.reason = "SimulationFailure") =>
              /\ Contains(ret.err.message, bundleResult.txSignature)
              /\ Contains(ret.err.message, bundleResult.msg)
        /\ (FiveRejection(bundleResult)
              /\ bundleResult.reason \in {"StateAuctionBidRejected", "WinningBatchBidRejected"}) =>
              /\ Contains(ret.err.message, bundleResult.auctionId)
              /\ Contains(ret.err.message, ToString(bundleResult.simulatedBidLamports))
        /\ (FiveRejection(bundleResult)
              /\ bundleResult.reason \in {"InternalError", "DroppedBundle"}) =>
              Contains(ret.err.message, bundleResult.msg)

C10_Witness ==
    /\ gotResult
    /\ bundleResult = BR("Rejected", "WinningBatchBidRejected", "", "", "auction2", 2000)
    /\ ret.err.kind = "BundleRejectionError"
    /\ Contains(ret.err.message, "auction2")
    /\ Contains(ret.err.message, "2000")

\* C11: SimulateBundle returns the configuration-mismatch error, without
\* making the RPC call, whenever the pre-execution or the post-execution
\* config list differs in length from the list of encoded transactions.
C11_ConfigMismatchBeforeRpc ==
    ( /\ uop = "SimulateBundle"
      /\ upc = "done"
      /\ \/ uin.preExecutionAccountsConfigs # uin.encodedTransactions
         \/ uin.postExecutionAccountsConfigs # uin.encodedTransactions )
    => (uout.err = ConfigMismatchErr /\ ucalls = 0)

\* C12: GetRandomTipAccount returns a member of a non-empty account list, and
\* returns an error (it does not panic) when the list is empty.
C12_RandomTipMemberOrError ==
    (uop = "GetRandomTipAccount" /\ upc # "idle" /\ ~uin.failed) =>
        IF Len(uin.accounts) > 0
        THEN /\ upc = "done"
             /\ uout.err = NoError
             /\ \E k \in 1..Len(uin.accounts) : uout.value = uin.accounts[k]
        ELSE upc = "done" /\ uout.err # NoError

\* a sender that waits at an error channel nobody receives from
BlockedOnErrorChannel ==
    \/ /\ ~sdrain.client
       /\ \/ \E g \in Gens : sloop[g] = "sendErr"
          \/ \E t \in BagToSet(stasks) : t.pc = "sendErr"
    \/ /\ ~sdrain.sub
       /\ \E g \in Gens : sloop[g] = "report"

\* C13: once the subscription's context is cancelled, no receive is attempted
\* and no error is emitted on any error channel.
C13_NothingAfterCancel ==
    /\ "recvAfterCancel" \notin sevents
    /\ "errAfterCancel" \notin sevents

\* C14: the loop, a decode task and the restart handler never wait at an
\* error channel that has no consumer.
C14_ProducersNeverBlock == ~BlockedOnErrorChannel

\* C15: a receive failure is emitted on the subscription's error channel
\* (payload.ErrCh), never on another channel.
C15_RecvFailureOnSubscriptionErrCh == "recvErrOnClientChan" \notin sevents

\* C16: a failed re-subscription is reported, once, on payload.ErrCh.
C16_RestartFailureReportedOnce ==
    /\ "restartUnreported" \notin sevents
    /\ sreports <= 1

\* C17: an item that decodes is pushed, whatever happens to its siblings: no
\* task holding a decoded transaction takes the error branch.
C17_GoodSiblingPushed == "goodDropped" \notin sevents

\* C18: while the replacement stream's loop runs, no decode task of an
\* earlier stream generation pushes.
C18_NoStaleGenerationPush == "stalePush" \notin sevents

\* C19: every value pushed on payload.TxCh is a decoded transaction: a task
\* whose decode failed never pushes its nil transaction.
C19_OnlyDecodedPushed == "nilPushed" \notin sevents

\* C20: a rejection a caller is returned comes from a bundle result of the
\* bundle that caller submitted.
C20_RejectionBelongsToCaller ==
    \A c \in Callers :
        (cpc[c] = "done" /\ cret[c].err.kind = "BundleRejectionError")
            => cgot[c].bundleId = cuuid[c]

\* C21: at most one receive loop is active for a subscription at any time:
\* only the loop of the stream opened last runs, so a replacement stream is
\* opened only once the faulted loop has stopped.
C21_AtMostOneLoop ==
    /\ \A g \in Gens : LoopRunning(g) => g = sgen
    /\ Cardinality({g \in Gens : LoopRunning(g)}) <= 1

\* a restart has opened a second stream and its loop is receiving
C21_Witness ==
    /\ sgen = 2
    /\ sloop[1] \in {"recovered", "dead"}
    /\ sloop[2] = "check"

\* C23: a notification the stream returned successfully is dispatched: the
\* loop never takes the receive-failure branch for a receive that succeeded.
C23_ReceivedBatchDispatched == "batchSkipped" \notin sevents

\* how a polling phase ends: success, RPC error, status error, timeout
PollOutcome(r) ==
    \/ r.err = NoError /\ r.value = resp
    \/ r.err \in {StatusRpcFailed, StatusRpcCanceled}
    \/ r.err = NotConfirmedErr
    \/ r.err = TimeoutErr

\* C22: when every receive and every ledger RPC returns, the call terminates;
\* it makes at most 5 receive attempts, enters the polling phase at most
\* once, and a polling phase ends by success, RPC error, status error or the
\* 15-second timeout.
C22_Terminates ==
    /\ (Confirming ~> pc = "done")
    /\ [](recvCount <= Retries)
    /\ [][(pc # "poll" /\ pc' = "poll") => (pc = "recv" /\ pollCount = 0 /\ ~gotResult)
            \/ pc = "pollSleep"]_allVars
    /\ []((Confirming /\ pc = "done" /\ pollCount > 0) => PollOutcome(ret))

\* the call has returned after four failed receives, a fifth that let it
\* through, and a polling phase that timed out
C22_Witness ==
    /\ Confirming
    /\ pc = "done"
    /\ recvCount = Retries
    /\ gotResult
    /\ pollCount > 1
    /\ ret.err = TimeoutErr

=========================================================================
